---- MODULE Spec2Model ----
(***************************************************************************)
(* A model of telegram_teacher_bot.py: the SQLite store (students, tasks,  *)
(* submissions, settings), the APScheduler job table and the aiogram       *)
(* message handlers that read and write them.                              *)
(*                                                                         *)
(* Text is modelled as a sequence of units.  A unit is one character,      *)
(* except that the four letters of the word "task" form one unit ("t" in   *)
(* lower case, "T" when a letter of it is upper case) and the two letters  *)
(* of "id" form one unit ("i" / "I").  "a" is any other letter, " " is     *)
(* white space.  So "Task ID: 7" is <<"T"," ","I",":"," ","7">>.            *)
(*                                                                         *)
(* An optional value (Python None, SQL NULL) is a sequence of length 0 or  *)
(* 1: None is <<>>, the value x is <<x>>.                                  *)
(***************************************************************************)
EXTENDS Integers, Sequences, FiniteSets, TLC

VARIABLES
    TEACHER_CHAT_ID,  \* the environment's TEACHER_CHAT_ID, fixed for a run
    settings,         \* table settings: the value under key teacher_chat_id
    students,         \* table students: rows in insertion order
    tasks,            \* table tasks: row i has id i (AUTOINCREMENT, no delete)
    submissions,      \* table submissions: rows in insertion order
    jobs,             \* the scheduler's job table: a set of [id, trigger]
    procs,            \* the broadcasts started so far, running or finished
    last              \* the update handled last and what the handler answered,
                      \* or "send" after a step of a broadcast

vars == <<TEACHER_CHAT_ID, settings, students, tasks, submissions, jobs, procs, last>>

----------------------------------------------------------------------------
(* Bounds of the model *)

MaxTasks == 1
MaxSubs == 2
MaxTextLen == 4
MaxBroadcasts == 1
MaxFirings == 2
MaxTitleLen == 2

\* the chat ids that send updates
Users == {1, 2}

None == <<>>
Some(x) == <<x>>

----------------------------------------------------------------------------
(* Python's string operations, on sequences of units *)

Digits == <<"0", "1", "2", "3", "4", "5", "6", "7", "8", "9">>

IsDigitChar(c) == \E i \in 1..Len(Digits) : Digits[i] = c

DigitVal(c) == (CHOOSE i \in 1..Len(Digits) : Digits[i] = c) - 1

\* a unit of white space: str.split() and str.strip() take the line break too
IsSpace(c) == c = " " \/ c = "\n"

\* str.lower()
LowerChar(c) == IF c = "T" THEN "t" ELSE IF c = "I" THEN "i" ELSE c

Lower(s) == [k \in 1..Len(s) |-> LowerChar(s[k])]

\* the positions at which pat occurs in s
Occurs(s, pat) ==
    {k \in 1..(Len(s) - Len(pat) + 1) : SubSeq(s, k, k + Len(pat) - 1) = pat}

\* pat in s
Contains(s, pat) == Occurs(s, pat) # {}

Min(S) == CHOOSE x \in S : \A y \in S : x <= y

Max(S) == CHOOSE x \in S : \A y \in S : y <= x

RECURSIVE LStrip(_)
LStrip(s) == IF s # <<>> /\ IsSpace(Head(s)) THEN LStrip(Tail(s)) ELSE s

RECURSIVE RStrip(_)
RStrip(s) ==
    IF s # <<>> /\ IsSpace(s[Len(s)]) THEN RStrip(SubSeq(s, 1, Len(s) - 1)) ELSE s

\* str.strip()
Strip(s) == RStrip(LStrip(s))

\* str.split(): the maximal runs of non-space units
RECURSIVE Split(_)
Split(s) ==
    LET t == LStrip(s)
        sp == {k \in 1..Len(t) : IsSpace(t[k])}
        n == IF sp = {} THEN Len(t) + 1 ELSE Min(sp)
    IN  IF t = <<>> THEN <<>>
        ELSE <<SubSeq(t, 1, n - 1)>> \o Split(SubSeq(t, n, Len(t)))

\* str.split(sep)
RECURSIVE SplitOn(_, _)
SplitOn(s, sep) ==
    IF ~Contains(s, sep) THEN <<s>>
    ELSE LET k == Min(Occurs(s, sep))
         IN  <<SubSeq(s, 1, k - 1)>> \o SplitOn(SubSeq(s, k + Len(sep), Len(s)), sep)

\* str.isdigit()
IsDigit(p) == p # <<>> /\ \A k \in 1..Len(p) : IsDigitChar(p[k])

RECURSIVE DecVal(_)
DecVal(ds) ==
    IF ds = <<>> THEN 0
    ELSE DecVal(SubSeq(ds, 1, Len(ds) - 1)) * 10 + DigitVal(ds[Len(ds)])

\* whether int(p) returns (it raises ValueError otherwise)
IsIntLiteral(p) ==
    LET body == IF p # <<>> /\ Head(p) = "-" THEN Tail(p) ELSE p
    IN  IsDigit(body)

\* int(p), for p with IsIntLiteral(p)
IntOf(p) == IF Head(p) = "-" THEN 0 - DecVal(Tail(p)) ELSE DecVal(p)

\* str(n) for a one-digit n
Numeral(n) == <<Digits[n + 1]>>

KwTaskColon == <<"t", ":">>
KwTaskId == <<"t", " ", "i">>

----------------------------------------------------------------------------
(* The submission resolver of handle_file *)

\* CaptionTaskId with caption in place of caption.lower()
CaptionTaskId_CaseSensitive(caption) ==
    IF Contains(caption, KwTaskColon)
    THEN LET toks == Split(Strip(SplitOn(caption, KwTaskColon)[2]))
         IN  IF toks = <<>> THEN None
             ELSE IF IsIntLiteral(toks[1]) THEN Some(IntOf(toks[1]))
             ELSE None
    ELSE None

\* the try/except around int(caption.lower().split('task:')[1].strip().split()[0])
CaptionTaskId(caption) ==
    IF Contains(Lower(caption), KwTaskColon)
    THEN LET toks == Split(Strip(SplitOn(Lower(caption), KwTaskColon)[2]))
         IN  IF toks = <<>> THEN None
             ELSE IF IsIntLiteral(toks[1]) THEN Some(IntOf(toks[1]))
             ELSE None
    ELSE None

\* ReplyTaskId with txt in place of txt.lower()
ReplyTaskId_CaseSensitive(task_id, reply) ==
    IF reply # None /\ reply[1] # <<>>
    THEN LET txt == reply[1]
             parts == SelectSeq(Split(txt), IsDigit)
         IN  IF Contains(txt, KwTaskId) \/ Contains(txt, KwTaskColon)
             THEN IF parts # <<>> THEN Some(IntOf(parts[1])) ELSE task_id
             ELSE task_id
    ELSE task_id

\* the scan of the replied-to message's text; task_id is the value so far
ReplyTaskId(task_id, reply) ==
    IF reply # None /\ reply[1] # <<>>
    THEN LET txt == reply[1]
             parts == SelectSeq(Split(txt), IsDigit)
         IN  IF Contains(Lower(txt), KwTaskId) \/ Contains(Lower(txt), KwTaskColon)
             THEN IF parts # <<>> THEN Some(IntOf(parts[1])) ELSE task_id
             ELSE task_id
    ELSE task_id

ResolveTaskId(caption, reply) == ReplyTaskId(CaptionTaskId(caption), reply)

\* Python's "not task_id": None and 0 are both false
NotTaskId(task_id) == task_id = None \/ task_id = Some(0)

----------------------------------------------------------------------------
(* Cron expressions.  A field is "*" or a number. *)

Star == <<"*">>
Num(n) == <<"n", n>>

\* the value ranges CronTrigger accepts for minute, hour, day, month, day_of_week
FieldMin == <<0, 0, 1, 1, 0>>
FieldMax == <<59, 23, 31, 12, 6>>

\* whether CronTrigger parses field f at position k (it raises ValueError otherwise)
CronFieldOK(k, f) ==
    \/ f = Star
    \/ /\ Len(f) = 2
       /\ f[1] = "n"
       /\ FieldMin[k] <= f[2]
       /\ f[2] <= FieldMax[k]

\* whether CronTrigger(minute, hour, day, month, day_of_week) returns, for 5 fields
CronTriggerOK(fields) == \A k \in 1..5 : CronFieldOK(k, fields[k])

\* the expressions the teacher types: "0 18 * * *", "30 7 * * 1",
\* "0 18 * *" (four fields) and "0 25 * * *" (no such hour)
CronExprs ==
    { <<Num(0), Num(18), Star, Star, Star>>,
      <<Num(30), Num(7), Star, Star, Num(1)>>,
      <<Num(0), Num(18), Star, Star>>,
      <<Num(0), Num(25), Star, Star, Star>> }

----------------------------------------------------------------------------
(* The store and the job table *)

\* TEACHER_CHAT_ID or get_setting('teacher_chat_id')
TeacherId == IF TEACHER_CHAT_ID # None THEN TEACHER_CHAT_ID ELSE settings

\* Gate without the comparison of the sender with the teacher
Gate_AnySender(u) == IF TeacherId = None THEN "not_configured" ELSE "ok"

\* the teacher_only decorator: what it lets through
Gate(u) ==
    IF TeacherId = None THEN "not_configured"
    ELSE IF u # TeacherId[1] THEN "only_teacher"
    ELSE "ok"

HasStudent(rows, u) == \E k \in 1..Len(rows) : rows[k].chat_id = u

\* InsertStudent as a plain INSERT
InsertStudent_NoIgnore(rows, u) == Append(rows, [chat_id |-> u])

\* INSERT OR IGNORE INTO students, chat_id being UNIQUE
InsertStudent(rows, u) ==
    IF HasStudent(rows, u) THEN rows ELSE Append(rows, [chat_id |-> u])

TaskExists(rows, task_id) == task_id \in 1..Len(rows)

\* UPDATE tasks SET scheduled_cron=? WHERE id=?
UpdateCron(rows, task_id, cron_expr) ==
    [k \in 1..Len(rows) |->
        IF k = task_id THEN [rows[k] EXCEPT !.scheduled_cron = Some(cron_expr)]
        ELSE rows[k]]

HasJob(js, id) == \E j \in js : j.id = id

\* RemoveJob left out
RemoveJob_Skipped(js, id) == js

\* scheduler.remove_job(job_id) inside try/except
RemoveJob(js, id) == {j \in js : j.id # id}

\* scheduler.add_job(job, trigger, id=job_id), for an id the table does not hold
AddJob(js, id, trigger) == js \cup {[id |-> id, trigger |-> trigger]}

----------------------------------------------------------------------------
(* The updates the model sends *)

\* captions of uploaded files: "hello", "task: 1", "Task: 2 hello"
Captions ==
    { <<"a">>,
      <<"t", ":", " ", "1">>,
      <<"T", ":", " ", "2", " ", "a">> }

\* the text of the message replied to: no reply, "Task ID: 1 hello"
ReplyTexts ==
    { None,
      Some(<<"T", " ", "I", ":", " ", "1", " ", "a">>) }

\* the words after /schedule_task: parts[1] and parts[2]
ScheduleArgs ==
    {<<>>, << <<"a">> >>}
        \cup {<<Numeral(t), e>> : t \in 1..MaxTasks, e \in CronExprs}

\* the words after /stats: parts[1]
StatsArgs == {<<>>, << <<"a">> >>} \cup {<<Numeral(t)>> : t \in 1..MaxTasks}

----------------------------------------------------------------------------
(* The handlers *)

Init ==
    /\ TEACHER_CHAT_ID \in {None, Some(1)}
    /\ settings = None
    /\ students = <<>>
    /\ tasks = <<>>
    /\ submissions = <<>>
    /\ jobs = {}
    /\ procs = <<>>
    /\ last = [op |-> "none"]

\* /start
cmd_start(u) ==
    /\ IF TeacherId # None /\ u = TeacherId[1]
       THEN /\ last' = [op |-> "start", from |-> u, result |-> "teacher"]
            /\ UNCHANGED students
       ELSE /\ students' = InsertStudent(students, u)
            /\ last' = [op |-> "start", from |-> u, result |-> "registered"]
    /\ UNCHANGED <<TEACHER_CHAT_ID, settings, tasks, submissions, jobs, procs>>

\* /set_teacher
cmd_set_teacher(u) ==
    /\ settings' = Some(u)
    /\ last' = [op |-> "set_teacher", from |-> u, result |-> "ok"]
    /\ UNCHANGED <<TEACHER_CHAT_ID, students, tasks, submissions, jobs, procs>>

\* handle_file with the INSERT INTO submissions ahead of the "not task_id" test
handle_file_StoresFirst(u, caption0, reply) ==
    LET is_teacher == TeacherId # None /\ u = TeacherId[1]
        caption == Strip(caption0)
        task_id == ResolveTaskId(caption, reply)
        seen == [op |-> "file", from |-> u, is_teacher |-> is_teacher,
                 caption |-> caption0, reply |-> reply]
    IN  /\ IF is_teacher
           THEN /\ Len(tasks) < MaxTasks
                /\ tasks' = Append(tasks, [scheduled_cron |-> None])
                /\ last' = [task_id |-> Some(Len(tasks) + 1),
                            result |-> "task_created"] @@ seen
                /\ UNCHANGED submissions
           ELSE /\ Len(submissions) < MaxSubs
                /\ submissions' = Append(submissions,
                        [task_id |-> task_id, student_chat_id |-> u])
                /\ last' = [task_id |-> task_id,
                            result |-> IF NotTaskId(task_id) THEN "ambiguous"
                                       ELSE "saved"] @@ seen
                /\ UNCHANGED tasks
        /\ UNCHANGED <<TEACHER_CHAT_ID, settings, students, jobs, procs>>

\* a message with a video, audio, voice or document
handle_file(u, caption0, reply) ==
    LET is_teacher == TeacherId # None /\ u = TeacherId[1]
        caption == Strip(caption0)
        task_id == ResolveTaskId(caption, reply)
        seen == [op |-> "file", from |-> u, is_teacher |-> is_teacher,
                 caption |-> caption0, reply |-> reply]
    IN  /\ IF is_teacher
           THEN /\ Len(tasks) < MaxTasks
                /\ tasks' = Append(tasks, [scheduled_cron |-> None])
                /\ last' = [task_id |-> Some(Len(tasks) + 1),
                            result |-> "task_created"] @@ seen
                /\ UNCHANGED submissions
           ELSE IF NotTaskId(task_id)
           THEN /\ last' = [task_id |-> task_id, result |-> "ambiguous"] @@ seen
                /\ UNCHANGED <<tasks, submissions>>
           ELSE /\ Len(submissions) < MaxSubs
                /\ submissions' = Append(submissions,
                        [task_id |-> task_id[1], student_chat_id |-> u])
                /\ last' = [task_id |-> task_id, result |-> "saved"] @@ seen
                /\ UNCHANGED tasks
        /\ UNCHANGED <<TEACHER_CHAT_ID, settings, students, jobs, procs>>

\* /schedule_task <task_id> <cron_expr>, past the teacher_only gate and the
\* parsing of its words: the new tasks table, the new job table and the answer
ScheduleOutcome(task_id, cron_expr) ==
    LET tasks1 == UpdateCron(tasks, task_id, cron_expr)
        jobs1 == RemoveJob(jobs, task_id)
    IN  IF Len(cron_expr) # 5
        THEN [tasks |-> tasks1, jobs |-> jobs1, result |-> "five_fields_needed"]
        ELSE IF ~CronTriggerOK(cron_expr)
        THEN [tasks |-> tasks1, jobs |-> jobs1, result |-> "ValueError"]
        ELSE IF HasJob(jobs1, task_id)
        THEN [tasks |-> tasks1, jobs |-> jobs1, result |-> "ConflictingIdError"]
        ELSE [tasks |-> tasks1, jobs |-> AddJob(jobs1, task_id, cron_expr),
              result |-> "scheduled"]

cmd_schedule_task(u, args) ==
    LET seen == [op |-> "schedule", from |-> u]
    IN  /\ IF Gate(u) # "ok"
           THEN /\ last' = [result |-> Gate(u)] @@ seen
                /\ UNCHANGED <<tasks, jobs>>
           ELSE IF Len(args) < 2
           THEN /\ last' = [result |-> "usage"] @@ seen
                /\ UNCHANGED <<tasks, jobs>>
           ELSE IF ~IsIntLiteral(args[1])
           THEN /\ last' = [result |-> "bad_task_id"] @@ seen
                /\ UNCHANGED <<tasks, jobs>>
           ELSE LET out == ScheduleOutcome(IntOf(args[1]), args[2])
                IN  /\ tasks' = out.tasks
                    /\ jobs' = out.jobs
                    /\ last' = [result |-> out.result, task_id |-> IntOf(args[1]),
                                cron_expr |-> args[2],
                                had |-> {j.trigger : j \in {x \in jobs : x.id = IntOf(args[1])}}]
                               @@ seen
        /\ UNCHANGED <<TEACHER_CHAT_ID, settings, students, submissions, procs>>

\* the rows of submissions for task_id, as the dict {student_chat_id: submitted_at}:
\* the key set, and for a key the row that came last (its number stands for its time)
SubsKeys(task_id) ==
    {submissions[k].student_chat_id :
        k \in {n \in 1..Len(submissions) : submissions[n].task_id = task_id}}

SubsAt(task_id, chat_id) ==
    Max({k \in 1..Len(submissions) :
            /\ submissions[k].task_id = task_id
            /\ submissions[k].student_chat_id = chat_id})

\* the two lists /stats builds
StatsSubmitted(task_id) ==
    LET In(row) == row.chat_id \in SubsKeys(task_id)
        picked == SelectSeq(students, In)
    IN  [k \in 1..Len(picked) |->
            [chat_id |-> picked[k].chat_id,
             at |-> SubsAt(task_id, picked[k].chat_id)]]

\* StatsNotSubmitted with the append outside the else branch
StatsNotSubmitted_NoElse(task_id) ==
    [k \in 1..Len(students) |-> students[k].chat_id]

StatsNotSubmitted(task_id) ==
    LET Out(row) == row.chat_id \notin SubsKeys(task_id)
        picked == SelectSeq(students, Out)
    IN  [k \in 1..Len(picked) |-> picked[k].chat_id]

\* /stats <task_id>
cmd_stats(u, args) ==
    LET seen == [op |-> "stats", from |-> u]
    IN  /\ IF Gate(u) # "ok"
           THEN last' = [result |-> Gate(u)] @@ seen
           ELSE IF Len(args) < 1
           THEN last' = [result |-> "usage"] @@ seen
           ELSE IF ~IsIntLiteral(args[1])
           THEN last' = [result |-> "bad_task_id"] @@ seen
           ELSE last' = [result |-> "stats", task_id |-> IntOf(args[1]),
                         submitted |-> StatsSubmitted(IntOf(args[1])),
                         not_submitted |-> StatsNotSubmitted(IntOf(args[1]))] @@ seen
        /\ UNCHANGED <<TEACHER_CHAT_ID, settings, students, tasks, submissions, jobs, procs>>

----------------------------------------------------------------------------
(* Broadcasts.  A broadcast is a coroutine that walks a list of chat ids   *)
(* and awaits bot.send_message, bot.send_chat_action (manual broadcast of  *)
(* a video, voice or audio task only) and bot.send_document for each.      *)
(* Every await is one step, and other handlers run between the steps.      *)
(* procs[k] is the k-th broadcast started:                                 *)
(*   kind      "all", "single" (/send_task), "resend", "fire" (the job)    *)
(*   task_id   the task sent                                               *)
(*   media     the task's file_type is video, voice or audio               *)
(*   snapshot  the list the loop walks, read from the store at the start   *)
(*   i, s      the loop's position: target number i, send number s of it   *)
(*   failed    the handler's list failed                                   *)
(*   log       every send attempted so far: [to, what, ok]                 *)
(* tasks.file_type is not kept in the tasks rows of the model: a broadcast *)
(* reads either kind.                                                      *)

\* SELECT chat_id FROM students
RosterIds(rows) == [k \in 1..Len(rows) |-> rows[k].chat_id]

\* Snapshot with the table read again at every step of the loop
Snapshot_Live(p) ==
    IF p.kind \in {"all", "fire"} THEN RosterIds(students) ELSE p.snapshot

\* the list the loop walks: the rows fetched before the loop
Snapshot(p) == p.snapshot

\* the sends awaited for one target, in order
Sends(p) ==
    IF p.kind = "all" /\ p.media THEN <<"text", "action", "doc">>
    ELSE <<"text", "doc">>

\* the coroutine has sends left
Running(p) == p.i <= Len(Snapshot(p))

Target(p) == Snapshot(p)[p.i]

Attempt(p, ok) == [to |-> Target(p), what |-> Sends(p)[p.s], ok |-> ok]

\* an awaited send returned
OnSendOk(p) ==
    IF p.s < Len(Sends(p))
    THEN [p EXCEPT !.log = Append(@, Attempt(p, TRUE)), !.s = @ + 1]
    ELSE [p EXCEPT !.log = Append(@, Attempt(p, TRUE)), !.s = 1, !.i = @ + 1]

\* OnSendFailed with the exception leaving the loop
OnSendFailed_Abort(p) ==
    [p EXCEPT !.log = Append(@, Attempt(p, FALSE)),
              !.failed = IF p.kind \in {"all", "resend"}
                         THEN Append(@, Target(p)) ELSE @,
              !.s = 1, !.i = Len(Snapshot(p)) + 1]

\* OnSendFailed without failed.append(chat_id)
OnSendFailed_NotCounted(p) ==
    [p EXCEPT !.log = Append(@, Attempt(p, FALSE)), !.s = 1, !.i = @ + 1]

\* an awaited send raised: the except branch, then the next target
OnSendFailed(p) ==
    [p EXCEPT !.log = Append(@, Attempt(p, FALSE)),
              !.failed = IF p.kind \in {"all", "resend"}
                         THEN Append(@, Target(p)) ELSE @,
              !.s = 1, !.i = @ + 1]

\* the counts of the handler's last reply
Delivered(p) == Len(Snapshot(p)) - Len(p.failed)

Failed(p) == Len(p.failed)

\* how many broadcasts the handlers, and how many the jobs, have started
Manual(ps) == Cardinality({k \in 1..Len(ps) : ps[k].kind # "fire"})

Firings(ps) == Cardinality({k \in 1..Len(ps) : ps[k].kind = "fire"})

NewProc(kind, task_id, media, snapshot) ==
    [kind |-> kind, task_id |-> task_id, media |-> media, snapshot |-> snapshot,
     i |-> 1, s |-> 1, failed |-> <<>>, log |-> <<>>]

\* one await of broadcast k returns or raises
SendStep(k, ok) ==
    /\ k \in 1..Len(procs)
    /\ Running(procs[k])
    /\ procs' = [procs EXCEPT ![k] = IF ok THEN OnSendOk(@) ELSE OnSendFailed(@)]
    /\ last' = [op |-> "send"]
    /\ UNCHANGED <<TEACHER_CHAT_ID, settings, students, tasks, submissions, jobs>>

KwAll == <<"all">>

\* /send_task <task_id> <all|chat_id>, for a task whose file is of either kind
cmd_send_task(u, args, media) ==
    LET seen == [op |-> "send_task", from |-> u]
    IN  /\ IF Gate(u) # "ok"
           THEN /\ last' = [result |-> Gate(u)] @@ seen
                /\ UNCHANGED procs
           ELSE IF Len(args) < 2
           THEN /\ last' = [result |-> "usage"] @@ seen
                /\ UNCHANGED procs
           ELSE IF ~IsIntLiteral(args[1])
           THEN /\ last' = [result |-> "bad_task_id"] @@ seen
                /\ UNCHANGED procs
           ELSE IF ~TaskExists(tasks, IntOf(args[1]))
           THEN /\ last' = [result |-> "not_found"] @@ seen
                /\ UNCHANGED procs
           ELSE IF args[2] = KwAll
           THEN /\ Manual(procs) < MaxBroadcasts
                /\ procs' = Append(procs,
                      NewProc("all", IntOf(args[1]), media, RosterIds(students)))
                /\ last' = [result |-> "started", proc |-> Len(procs) + 1] @@ seen
           ELSE IF ~IsIntLiteral(args[2])
           THEN /\ last' = [result |-> "bad_target"] @@ seen
                /\ UNCHANGED procs
           ELSE /\ Manual(procs) < MaxBroadcasts
                /\ procs' = Append(procs,
                      NewProc("single", IntOf(args[1]), media, <<IntOf(args[2])>>))
                /\ last' = [result |-> "started", proc |-> Len(procs) + 1] @@ seen
        /\ UNCHANGED <<TEACHER_CHAT_ID, settings, students, tasks, submissions, jobs>>

\* SELECT DISTINCT student_chat_id FROM submissions WHERE task_id=?
SubmittedIds(task_id) ==
    {submissions[k].student_chat_id :
        k \in {n \in 1..Len(submissions) : submissions[n].task_id = task_id}}

\* ToSend without the filter
ToSend_NoFilter(task_id) == RosterIds(students)

\* [s for s in students if s not in submitted]
ToSend(task_id) ==
    LET Out(c) == c \notin SubmittedIds(task_id)
    IN  SelectSeq(RosterIds(students), Out)

\* /resend_unsubmitted <task_id>
cmd_resend_unsubmitted(u, args) ==
    LET seen == [op |-> "resend", from |-> u]
    IN  /\ IF Gate(u) # "ok"
           THEN /\ last' = [result |-> Gate(u)] @@ seen
                /\ UNCHANGED procs
           ELSE IF Len(args) < 1
           THEN /\ last' = [result |-> "usage"] @@ seen
                /\ UNCHANGED procs
           ELSE IF ~IsIntLiteral(args[1])
           THEN /\ last' = [result |-> "bad_task_id"] @@ seen
                /\ UNCHANGED procs
           ELSE IF ~TaskExists(tasks, IntOf(args[1]))
           THEN /\ last' = [result |-> "not_found", task_id |-> IntOf(args[1])]
                              @@ seen
                /\ UNCHANGED procs
           ELSE /\ Manual(procs) < MaxBroadcasts
                /\ procs' = Append(procs,
                      NewProc("resend", IntOf(args[1]), FALSE, ToSend(IntOf(args[1]))))
                /\ last' = [result |-> "started", proc |-> Len(procs) + 1,
                            task_id |-> IntOf(args[1])] @@ seen
        /\ UNCHANGED <<TEACHER_CHAT_ID, settings, students, tasks, submissions, jobs>>

\* /list_students
cmd_list_students(u) ==
    /\ IF Gate(u) # "ok"
       THEN last' = [op |-> "list_students", from |-> u, result |-> Gate(u)]
       ELSE last' = [op |-> "list_students", from |-> u, result |-> "list",
                     rows |-> RosterIds(students)]
    /\ UNCHANGED <<TEACHER_CHAT_ID, settings, students, tasks, submissions, jobs, procs>>

\* an instance of the job of task_id is running
JobRunning(task_id) ==
    \E k \in 1..Len(procs) :
        procs[k].kind = "fire" /\ procs[k].task_id = task_id /\ Running(procs[k])

\* JobInstanceFree with max_instances above one
JobInstanceFree_Many(task_id) == TRUE

\* the scheduler runs at most one instance of a job id at a time
\* (add_job is called without max_instances)
JobInstanceFree(task_id) == ~JobRunning(task_id)

\* FireOutcome with the roster kept from the first firing of the task
FireOutcome_Cached(task_id) ==
    LET before == {k \in 1..Len(procs) :
                      procs[k].kind = "fire" /\ procs[k].task_id = task_id}
        roster == IF before = {} THEN RosterIds(students)
                  ELSE procs[Min(before)].snapshot
    IN  IF ~TaskExists(tasks, task_id)
        THEN [procs |-> procs, jobs |-> jobs, result |-> "missing"]
        ELSE [procs |-> Append(procs, NewProc("fire", task_id, FALSE, roster)),
              jobs |-> jobs, result |-> "started"]

\* FireOutcome that drops the job of a task that is missing
FireOutcome_DropsJob(task_id) ==
    IF ~TaskExists(tasks, task_id)
    THEN [procs |-> procs, jobs |-> RemoveJob(jobs, task_id), result |-> "missing"]
    ELSE [procs |-> Append(procs,
                     NewProc("fire", task_id, FALSE, RosterIds(students))),
          jobs |-> jobs, result |-> "started"]

\* the body of job() up to its first await: the task row and the roster read
FireOutcome(task_id) ==
    IF ~TaskExists(tasks, task_id)
    THEN [procs |-> procs, jobs |-> jobs, result |-> "missing"]
    ELSE [procs |-> Append(procs,
                     NewProc("fire", task_id, FALSE, RosterIds(students))),
          jobs |-> jobs, result |-> "started"]

\* the trigger of the job of task_id comes due
Fire(task_id) ==
    /\ HasJob(jobs, task_id)
    /\ IF ~JobInstanceFree(task_id)
       THEN /\ last' = [op |-> "fire", task_id |-> task_id, result |-> "skipped"]
            /\ UNCHANGED <<procs, jobs>>
       ELSE LET out == FireOutcome(task_id)
            IN  /\ out.result = "started" => Firings(procs) < MaxFirings
                /\ procs' = out.procs
                /\ jobs' = out.jobs
                /\ last' = [op |-> "fire", task_id |-> task_id,
                            result |-> out.result]
    /\ UNCHANGED <<TEACHER_CHAT_ID, settings, students, tasks, submissions>>

Next ==
    \/ \E u \in Users : cmd_start(u)
    \/ \E u \in Users : cmd_set_teacher(u)
    \/ \E u \in Users, c \in Captions, r \in ReplyTexts : handle_file(u, c, r)
    \/ \E u \in Users, a \in ScheduleArgs : cmd_schedule_task(u, a)
    \/ \E u \in Users, a \in StatsArgs : cmd_stats(u, a)

\* the whole program
Spec == Init /\ [][Next]_vars

----------------------------------------------------------------------------
(* Two slices of the program.  /schedule_task reads and writes the teacher  *)
(* setting, tasks and jobs and nothing else; /start, /stats and a student's *)
(* file read and write the teacher setting, students and submissions and    *)
(* neither scheduled_cron nor jobs.  Each slice keeps the handlers that     *)
(* touch its tables.                                                        *)

\* the roster, the submissions and the statistics
RosterNext ==
    \/ \E u \in Users : cmd_start(u)
    \/ \E u \in Users : cmd_set_teacher(u)
    \/ \E u \in Users, c \in Captions, r \in ReplyTexts : handle_file(u, c, r)
    \/ \E u \in Users, a \in StatsArgs : cmd_stats(u, a)

RosterSpec == Init /\ [][RosterNext]_vars

\* the tasks and the scheduler: files come from the teacher only
SchedulerNext ==
    \/ \E u \in Users : cmd_set_teacher(u)
    \/ \E u \in Users, c \in Captions, r \in ReplyTexts :
          Gate(u) = "ok" /\ handle_file(u, c, r)
    \/ \E u \in Users, a \in ScheduleArgs : cmd_schedule_task(u, a)

SchedulerSpec == Init /\ [][SchedulerNext]_vars

----------------------------------------------------------------------------
(* The resolver on every text: one file arrives at a bot whose teacher is   *)
(* 1, whose roster is {2} and which holds one task.                         *)

Alphabet == {"t", "T", "i", ":", " ", "0", "7", "-", "a"}

\* the texts of n units
TextsOfLen(n) == [1..n -> Alphabet]

\* "hello", "task: 1", "task:0"
ProbeCaptions == {<<>>, <<"a">>, <<"t", ":", " ", "1">>, <<"t", ":", "0">>}

\* no reply, a reply to a message without text, "Task ID: 2 hello", "2"
ProbeReplies ==
    { None,
      Some(<<>>),
      Some(<<"T", " ", "I", ":", " ", "2", " ", "a">>),
      Some(<<"2">>) }

ResolverInit ==
    /\ TEACHER_CHAT_ID = Some(1)
    /\ settings = None
    /\ students = <<[chat_id |-> 2]>>
    /\ tasks = <<[scheduled_cron |-> None]>>
    /\ submissions \in {<<>>, <<[task_id |-> 1, student_chat_id |-> 2]>>}
    /\ jobs = {}
    /\ procs = <<>>
    /\ last = [op |-> "none"]

ResolverNext ==
    /\ last.op = "none"
    /\ \/ \E n \in 0..MaxTextLen : \E c \in TextsOfLen(n), r \in ProbeReplies :
              handle_file(2, c, r)
       \/ \E n \in 0..MaxTextLen : \E r \in TextsOfLen(n), c \in ProbeCaptions :
              handle_file(2, c, Some(r))
       \/ \E c \in Captions, r \in ReplyTexts : handle_file(1, c, r)

ResolverSpec == ResolverInit /\ [][ResolverNext]_vars

----------------------------------------------------------------------------
(* Broadcasts and reminders: teacher 1, one task with a trigger, a roster   *)
(* that is empty or {3, 4}, with or without a submission of 4 for task 1.   *)
(* User 2 registers at any time; the teacher sends a command, and the       *)
(* trigger comes due, after the broadcast before it has ended, and there    *)
(* are MaxBroadcasts broadcasts of any kind at most.                        *)

\* the words after /send_task: parts[1] and parts[2]
SendArgs ==
    {<<>>, << <<"a">>, KwAll >>}
        \cup {<<Numeral(t), KwAll>> : t \in 1..(MaxTasks + 1)}
        \cup {<<Numeral(1), x>> : x \in {Numeral(3), Numeral(7), <<"a">>}}

\* the words after /resend_unsubmitted: parts[1]
ResendArgs == {<<>>, << <<"a">> >>} \cup {<<Numeral(t)>> : t \in 1..(MaxTasks + 1)}

NoneRunning == \A k \in 1..Len(procs) : ~Running(procs[k])

MayStart == NoneRunning /\ Len(procs) < MaxBroadcasts

DistributeInit ==
    /\ TEACHER_CHAT_ID = Some(1)
    /\ settings = None
    /\ students \in {<<>>, <<[chat_id |-> 3], [chat_id |-> 4]>>}
    /\ tasks = <<[scheduled_cron |-> Some(<<Num(0), Num(18), Star, Star, Star>>)]>>
    /\ submissions \in {<<>>, <<[task_id |-> 1, student_chat_id |-> 4]>>}
    /\ jobs = {[id |-> 1, trigger |-> <<Num(0), Num(18), Star, Star, Star>>]}
    /\ procs = <<>>
    /\ last = [op |-> "none"]

DistributeNext ==
    \/ \E u \in Users : cmd_start(u)
    \/ \E a \in SendArgs, m \in BOOLEAN : MayStart /\ cmd_send_task(1, a, m)
    \/ \E a \in ResendArgs : MayStart /\ cmd_resend_unsubmitted(1, a)
    \/ MayStart /\ Fire(1)
    \/ \E k \in 1..Len(procs), ok \in BOOLEAN : SendStep(k, ok)

DistributeSpec == DistributeInit /\ [][DistributeNext]_vars

----------------------------------------------------------------------------
(* The scheduler at work: teacher 1, roster {3}, no task yet.  The teacher  *)
(* uploads tasks and schedules them, user 2 registers at any time, and a    *)
(* trigger comes due at any time.                                           *)

\* the words after /schedule_task: "<task_id> 0 18 * * *"
FiringArgs == {<<Numeral(t), <<Num(0), Num(18), Star, Star, Star>> >> : t \in 1..MaxTasks}

FiringInit ==
    /\ TEACHER_CHAT_ID = Some(1)
    /\ settings = None
    /\ students = <<[chat_id |-> 3]>>
    /\ tasks = <<>>
    /\ submissions = <<>>
    /\ jobs = {}
    /\ procs = <<>>
    /\ last = [op |-> "none"]

FiringNext ==
    \/ cmd_start(2)
    \/ handle_file(1, <<"a">>, None)
    \/ \E a \in FiringArgs : cmd_schedule_task(1, a)
    \/ \E t \in 1..MaxTasks : Fire(t)
    \/ \E k \in 1..Len(procs), ok \in BOOLEAN : SendStep(k, ok)

FiringSpec == FiringInit /\ [][FiringNext]_vars

----------------------------------------------------------------------------
(* The gate: every command and every file, from the teacher and from        *)
(* another user, with and without a configured teacher, at a bot that holds *)
(* a student, a task and a trigger.                                         *)

\* the words after /schedule_task: "1 30 7 * * 1" and "1 0 18 * *"
GateScheduleArgs ==
    { <<Numeral(1), <<Num(30), Num(7), Star, Star, Num(1)>> >>,
      <<Numeral(1), <<Num(0), Num(18), Star, Star>> >> }

\* the words after /send_task, /resend_unsubmitted and /stats: "1 all", "1"
GateSendArgs == { <<Numeral(1), KwAll>> }

GateTaskArgs == { <<Numeral(1)>> }

GateInit ==
    /\ TEACHER_CHAT_ID \in {None, Some(1)}
    /\ settings = None
    /\ students = <<[chat_id |-> 3]>>
    /\ tasks = <<[scheduled_cron |-> Some(<<Num(0), Num(18), Star, Star, Star>>)]>>
    /\ submissions = <<>>
    /\ jobs = {[id |-> 1, trigger |-> <<Num(0), Num(18), Star, Star, Star>>]}
    /\ procs = <<>>
    /\ last = [op |-> "none"]

GateNext ==
    \/ \E u \in Users : cmd_set_teacher(u)
    \/ \E u \in Users : handle_file(u, <<"t", ":", " ", "1">>, None)
    \/ \E u \in Users, a \in GateScheduleArgs : cmd_schedule_task(u, a)
    \/ \E u \in Users, a \in GateTaskArgs : cmd_stats(u, a)
    \/ \E u \in Users, a \in GateSendArgs : cmd_send_task(u, a, FALSE)
    \/ \E u \in Users, a \in GateTaskArgs : cmd_resend_unsubmitted(u, a)
    \/ \E u \in Users : cmd_list_students(u)
    \/ \E k \in 1..Len(procs), ok \in BOOLEAN : SendStep(k, ok)

GateSpec == GateInit /\ [][GateNext]_vars

----------------------------------------------------------------------------
(* The announcement and the reply to it.  A broadcast renders one text per  *)
(* target and sends it ahead of the file; a student answers with a file     *)
(* sent as a reply to that text.  As in the captions, the unit "t" stands   *)
(* for the word task, "T" and "I" for Task and ID, and "a" for any other    *)
(* run of letters or signs that holds no digit and no white space.          *)

Nl == "\n"

\* Announcement with the title line ahead of the id line
Announcement_TitleFirst(kind, task_id, title, description) ==
    LET body == <<"a", ":", " ">> \o title
                    \o <<Nl, "T", " ", "I", ":", " ">> \o Numeral(task_id)
                    \o <<Nl>> \o description
                    \o <<Nl, "a", " ", "\"", "t", ":", " ">> \o Numeral(task_id)
                    \o <<"\"", " ", "a">>
    IN  IF kind = "resend" THEN <<"a", " ", "a", " ">> \o body ELSE body

\* f'Task ID: {task_id}\nTitle: {title}\n{description}\nReply with file and
\* caption "task: {task_id}" to submit.', after 'Напоминание — ' in a reminder
Announcement(kind, task_id, title, description) ==
    LET body == <<"T", " ", "I", ":", " ">> \o Numeral(task_id)
                    \o <<Nl, "a", ":", " ">> \o title
                    \o <<Nl>> \o description
                    \o <<Nl, "a", " ", "\"", "t", ":", " ">> \o Numeral(task_id)
                    \o <<"\"", " ", "a">>
    IN  IF kind = "resend" THEN <<"a", " ", "a", " ">> \o body ELSE body

\* await bot.send_message(chat_id, caption): the text is in the target's chat
Announce(kind, task_id, title, description) ==
    /\ TaskExists(tasks, task_id)
    /\ last' = [op |-> "announce", kind |-> kind, task_id |-> task_id,
                title |-> title, description |-> description,
                text |-> Announcement(kind, task_id, title, description)]
    /\ UNCHANGED <<TEACHER_CHAT_ID, settings, students, tasks, submissions,
                   jobs, procs>>

\* the loops that render an announcement
Kinds == {"all", "single", "fire", "resend"}

\* tasks.title and tasks.description: a stripped part of the caption of the
\* teacher's file, of n units
Titles(n) == {s \in TextsOfLen(n) : Strip(s) = s}

\* "", "7", "task: 0", "hello" and "0" on two lines
ProbeTitles ==
    {<<>>, <<"7">>, <<"t", ":", " ", "0">>, <<"a", Nl, "0">>}

\* captions that strip() empties
NoCaptions == {<<>>, <<" ">>}

AnnounceInit ==
    /\ TEACHER_CHAT_ID = Some(1)
    /\ settings = None
    /\ students = <<[chat_id |-> 2]>>
    /\ tasks = [k \in 1..MaxTasks |-> [scheduled_cron |-> None]]
    /\ submissions = <<>>
    /\ jobs = {}
    /\ procs = <<>>
    /\ last = [op |-> "none"]

AnnounceNext ==
    \/ /\ last.op = "none"
       /\ \E kind \in Kinds, t \in 1..MaxTasks, n \in 0..MaxTitleLen :
             \E title \in Titles(n), d \in ProbeTitles : Announce(kind, t, title, d)
    \/ /\ last.op = "none"
       /\ \E kind \in Kinds, t \in 1..MaxTasks, n \in 0..MaxTitleLen :
             \E d \in Titles(n), title \in ProbeTitles : Announce(kind, t, title, d)
    \/ /\ last.op = "announce"
       /\ \E c \in NoCaptions : handle_file(2, c, Some(last.text))

AnnounceSpec == AnnounceInit /\ [][AnnounceNext]_vars

----------------------------------------------------------------------------
(* What the specification's words mean, stated on the inputs *)

\* a five-field expression every field of which parses
ValidExpr(e) == Len(e) = 5 /\ CronTriggerOK(e)

\* the number N of a caption "... task: N ...": the first white-space-delimited
\* token after the first "task:" (in any case), when it is all digits
ClaimCaptionId(caption) ==
    LET low == Lower(caption)
    IN  IF Occurs(low, KwTaskColon) = {} THEN None
        ELSE LET k == Min(Occurs(low, KwTaskColon))
                 toks == Split(SubSeq(low, k + Len(KwTaskColon), Len(low)))
             IN  IF toks # <<>> /\ IsDigit(toks[1]) THEN Some(DecVal(toks[1]))
                 ELSE None

\* some "task:" (in any case) of the caption is followed, after white space
\* or none, by a digit or by a sign and a digit
CaptionNamesNumber(caption) ==
    LET low == Lower(caption)
    IN  \E k \in Occurs(low, KwTaskColon) :
            LET rest == LStrip(SubSeq(low, k + Len(KwTaskColon), Len(low)))
            IN  \/ rest # <<>> /\ IsDigitChar(rest[1])
                \/ Len(rest) >= 2 /\ rest[1] = "-" /\ IsDigitChar(rest[2])

\* the first white-space-delimited purely numeric token of the replied-to text
ClaimReplyId(reply) ==
    IF reply = None THEN None
    ELSE LET nums == SelectSeq(Split(reply[1]), IsDigit)
         IN  IF nums # <<>> THEN Some(DecVal(nums[1])) ELSE None

\* the replied-to text holds "task id" or "task:", in any case
ReplyHasKeyword(reply) ==
    /\ reply # None
    /\ \/ Contains(Lower(reply[1]), KwTaskId)
       \/ Contains(Lower(reply[1]), KwTaskColon)

\* the update handled last is a file from a sender who is not the teacher
StudentFile(l) == l.op = "file" /\ ~l.is_teacher

\* the file handled last was stored as a submission for task n from its sender
SavedAgainst(n) ==
    /\ last.result = "saved"
    /\ last.task_id = Some(n)
    /\ submissions # <<>>
    /\ submissions[Len(submissions)] = [task_id |-> n, student_chat_id |-> last.from]

\* /schedule_task handled last got past the gate and the parsing of its words
Scheduling(l) == l.op = "schedule" /\ "cron_expr" \in DOMAIN l

JobsOf(task_id) == {j \in jobs : j.id = task_id}

----------------------------------------------------------------------------
(* The claims *)

\* C1: the roster holds exactly one row per identifier after any sequence of
\* registrations, and /start from an identifier the roster holds adds no row:
\* the roster is as it was.
C1_OneRowPerIdentifier ==
    [][ /\ \A i, j \in 1..Len(students') :
              students'[i].chat_id = students'[j].chat_id => i = j
        /\ (last'.op = "start" /\ HasStudent(students, last'.from))
              => students' = students ]_vars

\* C1 happens: /start from the identifier of the roster's first row, the roster
\* holding a second row already.
C1_Witness ==
    /\ last.op = "start"
    /\ last.result = "registered"
    /\ Len(students) >= 2
    /\ students[1].chat_id = last.from

\* C2: no task id ever has two live triggers, and after /schedule_task with a
\* valid expression the one live trigger of that id is built from that
\* expression, whatever trigger the id had before.
C2_OneLiveTrigger ==
    /\ \A j1, j2 \in jobs : j1.id = j2.id => j1 = j2
    /\ (Scheduling(last) /\ ValidExpr(last.cron_expr))
          => JobsOf(last.task_id) =
                {[id |-> last.task_id, trigger |-> last.cron_expr]}

\* C2 happens: a valid expression replaced the trigger of a different one.
C2_Witness ==
    /\ Scheduling(last)
    /\ last.result = "scheduled"
    /\ last.had # {}
    /\ last.cron_expr \notin last.had

\* C3: /schedule_task with an expression that has not five fields, or a field
\* that does not parse, fails with that error and leaves the tasks table and
\* the job table as they were.
C3_InvalidCronChangesNothing ==
    [][ (Scheduling(last') /\ ~ValidExpr(last'.cron_expr))
            => /\ last'.result \in {"five_fields_needed", "ValueError"}
               /\ tasks' = tasks
               /\ jobs' = jobs ]_vars

\* C4: /schedule_task with a valid expression for an id no task has answers
\* NotFound and leaves that id without a trigger.
C4_MissingTaskNotFound ==
    (Scheduling(last) /\ ValidExpr(last.cron_expr)
        /\ ~TaskExists(tasks, last.task_id))
        => /\ last.result = "NotFound"
           /\ ~HasJob(jobs, last.task_id)

\* C5: every row of submissions names a stored task and a registered student.
C5_SubmissionsReferToStoredRows ==
    \A k \in 1..Len(submissions) :
        /\ TaskExists(tasks, submissions[k].task_id)
        /\ HasStudent(students, submissions[k].student_chat_id)

\* C6: a student's file whose caption names a task id N (N is not 0) and whose
\* replied-to text holds a different number M resolves to N.
C6_CaptionBeforeReply ==
    (StudentFile(last)
        /\ ClaimCaptionId(last.caption) # None
        /\ ClaimCaptionId(last.caption) # Some(0)
        /\ ClaimReplyId(last.reply) # None
        /\ ClaimReplyId(last.reply) # ClaimCaptionId(last.caption))
        => last.task_id = ClaimCaptionId(last.caption)

\* C7 as stated: a student's file with no reply whose caption names N
\* resolves to N and is stored against N.
C7_CaptionResolves ==
    (StudentFile(last) /\ last.reply = None /\ ClaimCaptionId(last.caption) # None)
        => SavedAgainst(ClaimCaptionId(last.caption)[1])

\* C7 amended: the same for every N other than 0.
C7_CaptionResolvesNonZero ==
    (StudentFile(last) /\ last.reply = None
        /\ ClaimCaptionId(last.caption) # None
        /\ ClaimCaptionId(last.caption) # Some(0))
        => SavedAgainst(ClaimCaptionId(last.caption)[1])

\* C7 happens: caption "task: 7", no reply, stored against 7.
C7_Witness ==
    /\ StudentFile(last)
    /\ last.reply = None
    /\ last.caption = <<"t", ":", " ", "7">>
    /\ SavedAgainst(7)

\* C8 as stated: a student's file whose caption names no number and whose
\* replied-to text has a purely numeric token resolves to the first such token
\* and is stored against it.
C8_ReplyResolves ==
    (StudentFile(last)
        /\ ClaimCaptionId(last.caption) = None
        /\ ClaimReplyId(last.reply) # None)
        => SavedAgainst(ClaimReplyId(last.reply)[1])

\* C8 amended: the same for every replied-to text that holds "task id" or
\* "task:" (in any case) and whose first purely numeric token is not 0.
C8_ReplyWithKeywordResolves ==
    (StudentFile(last)
        /\ ClaimCaptionId(last.caption) = None
        /\ ReplyHasKeyword(last.reply)
        /\ ClaimReplyId(last.reply) # None
        /\ ClaimReplyId(last.reply) # Some(0))
        => SavedAgainst(ClaimReplyId(last.reply)[1])

\* C8 happens: caption "hello", a reply to "Task ID: 2 hello", stored against 2.
C8_Witness ==
    /\ StudentFile(last)
    /\ last.caption = <<"a">>
    /\ last.reply = Some(<<"T", " ", "I", ":", " ", "2", " ", "a">>)
    /\ SavedAgainst(2)

C10_StatsPartition ==
    (last.op = "stats" /\ last.result = "stats")
        => LET t == last.task_id
               sub == {last.submitted[k].chat_id : k \in 1..Len(last.submitted)}
               nsub == {last.not_submitted[k] : k \in 1..Len(last.not_submitted)}
               roster == {students[k].chat_id : k \in 1..Len(students)}
           IN  /\ sub \cup nsub = roster
               /\ sub \cap nsub = {}
               /\ Len(last.submitted) + Len(last.not_submitted) = Len(students)
               /\ \A u \in roster :
                     u \in sub <=>
                        \E k \in 1..Len(submissions) :
                            submissions[k] = [task_id |-> t, student_chat_id |-> u]

\* C10 happens: /stats for a task with a student who submitted twice and a
\* student who did not submit.
C10_Witness ==
    /\ last.op = "stats"
    /\ last.result = "stats"
    /\ Len(last.not_submitted) >= 1
    /\ \E n \in 1..Len(last.submitted) :
          Cardinality({k \in 1..Len(submissions) :
              submissions[k] = [task_id |-> last.task_id,
                                student_chat_id |-> last.submitted[n].chat_id]}) >= 2

----------------------------------------------------------------------------
(* What the claims about broadcasts say, read from the sends attempted *)

\* the chat ids of a list
IdsOf(list) == {list[k] : k \in 1..Len(list)}

\* broadcast p attempted a send to c
Attempted(p, c) == \E n \in 1..Len(p.log) : p.log[n].to = c

\* a send of broadcast p to c failed
SendFailed(p, c) == \E n \in 1..Len(p.log) : p.log[n].to = c /\ ~p.log[n].ok

\* c received from broadcast p the announcement, the artifact
GotText(p, c) == [to |-> c, what |-> "text", ok |-> TRUE] \in IdsOf(p.log)

GotDoc(p, c) == [to |-> c, what |-> "doc", ok |-> TRUE] \in IdsOf(p.log)

\* the roster rows without a submission for task t
Unsubmitted(t) ==
    {students[k].chat_id : k \in 1..Len(students)}
        \ {submissions[k].student_chat_id :
              k \in {n \in 1..Len(submissions) : submissions[n].task_id = t}}

\* the step started a broadcast
Started == Len(procs') = Len(procs) + 1

----------------------------------------------------------------------------
(* The claims about broadcasts *)

\* C11: in a manual broadcast, a firing or a reminder that has ended, every
\* target of the snapshot was attempted, and every target none of whose sends
\* failed received the announcement and the artifact, whatever happened to the
\* other targets.
C11_FailureDoesNotAbort ==
    \A k \in 1..Len(procs) :
        ~Running(procs[k])
            => \A c \in IdsOf(procs[k].snapshot) :
                  /\ Attempted(procs[k], c)
                  /\ ~SendFailed(procs[k], c)
                        => GotText(procs[k], c) /\ GotDoc(procs[k], c)

\* C11 happens: a broadcast to three targets has ended, the send to the first
\* failed and the two others received the announcement and the artifact.
C11_Witness ==
    \E k \in 1..Len(procs) :
        /\ ~Running(procs[k])
        /\ Len(procs[k].snapshot) = 3
        /\ SendFailed(procs[k], procs[k].snapshot[1])
        /\ \A n \in 2..3 : /\ GotText(procs[k], procs[k].snapshot[n])
                           /\ GotDoc(procs[k], procs[k].snapshot[n])

\* C12: when /send_task all or /resend_unsubmitted has ended, delivered plus
\* failed is the number of targets, delivered counts the targets that received
\* the announcement and the artifact, failed counts the targets with a failed
\* send, and no artifact was sent to a target whose announcement failed.
C12_CountsAreExact ==
    \A k \in 1..Len(procs) :
        (~Running(procs[k]) /\ procs[k].kind \in {"all", "resend"})
            => LET p == procs[k]
                   T == IdsOf(p.snapshot)
               IN  /\ Delivered(p) + Failed(p) = Len(p.snapshot)
                   /\ Delivered(p) =
                        Cardinality({c \in T : GotText(p, c) /\ GotDoc(p, c)})
                   /\ Failed(p) = Cardinality({c \in T : SendFailed(p, c)})
                   /\ \A c \in T :
                        [to |-> c, what |-> "text", ok |-> FALSE] \in IdsOf(p.log)
                            => \A n \in 1..Len(p.log) :
                                  p.log[n].to = c => p.log[n].what = "text"

\* C12 happens: /send_task all has ended with delivered = 2 and failed = 1,
\* the failed target having received the announcement and no artifact.
C12_Witness ==
    \E k \in 1..Len(procs) :
        /\ ~Running(procs[k])
        /\ procs[k].kind = "all"
        /\ Delivered(procs[k]) = 2
        /\ Failed(procs[k]) = 1
        /\ \E c \in IdsOf(procs[k].failed) :
              GotText(procs[k], c) /\ ~GotDoc(procs[k], c)

\* C13: /resend_unsubmitted t for a stored task takes as targets exactly the
\* roster rows without a submission for t at that time, for a task id without
\* a task it starts nothing, and a reminder sends to its targets only and,
\* once ended, has sent to each of them.
C13_ResendTargets ==
    [][ /\ (last'.op = "resend" /\ Started)
              => /\ IdsOf(procs'[Len(procs')].snapshot) = Unsubmitted(last'.task_id)
                 /\ Cardinality(Unsubmitted(last'.task_id))
                        = Len(procs'[Len(procs')].snapshot)
        /\ (last'.op = "resend" /\ "task_id" \in DOMAIN last'
                /\ ~TaskExists(tasks, last'.task_id))
              => procs' = procs
        /\ \A k \in 1..Len(procs') :
              procs'[k].kind = "resend"
                  => /\ \A n \in 1..Len(procs'[k].log) :
                           procs'[k].log[n].to \in IdsOf(procs'[k].snapshot)
                     /\ ~Running(procs'[k])
                           => \A c \in IdsOf(procs'[k].snapshot) :
                                 Attempted(procs'[k], c) ]_vars

\* C13 happens: with roster {3, 4, 2} and a submission of 4 for task 1, the
\* reminder of task 1 has ended and has sent to 3 and 2 and not to 4.
C13_Witness ==
    \E k \in 1..Len(procs) :
        /\ procs[k].kind = "resend"
        /\ ~Running(procs[k])
        /\ IdsOf(RosterIds(students)) = {2, 3, 4}
        /\ IdsOf(procs[k].snapshot) = {2, 3}
        /\ {procs[k].log[n].to : n \in 1..Len(procs[k].log)} = {2, 3}

\* the chat ids a broadcast sent to, or tried to
SentTo(p) == {p.log[n].to : n \in 1..Len(p.log)}

\* the roster as a list of chat ids
RosterNow == [k \in 1..Len(students) |-> students[k].chat_id]

\* C14: a firing takes as targets the roster of the moment it starts, whatever
\* the roster was when the task was scheduled, keeps that list to its end and
\* sends to nobody else: a student registered later is not a target of it.
C14_RosterReadAtFireTime ==
    [][ /\ (last'.op = "fire" /\ Started)
              => procs'[Len(procs')].snapshot = RosterNow
        /\ \A k \in 1..Len(procs) : procs'[k].snapshot = procs[k].snapshot
        /\ \A k \in 1..Len(procs') :
              procs'[k].kind = "fire"
                  => SentTo(procs'[k]) \subseteq IdsOf(procs'[k].snapshot) ]_vars

\* C14 happens: two firings of one task; a student who registered after the
\* first had read the roster got nothing from the first and got the
\* announcement from the second.
C14_Witness ==
    \E a, b \in 1..Len(procs) :
        /\ a < b
        /\ procs[a].kind = "fire"
        /\ procs[b].kind = "fire"
        /\ procs[a].task_id = procs[b].task_id
        /\ procs[a].snapshot # <<>>
        /\ ~Running(procs[a])
        /\ \E c \in IdsOf(procs[b].snapshot) :
              /\ c \notin IdsOf(procs[a].snapshot)
              /\ c \notin SentTo(procs[a])
              /\ GotText(procs[b], c)

\* C15: a stored task whose scheduled_cron was never set has no trigger, and
\* no firing ever broadcast it.
C15_NoTriggerWithoutRecurrence ==
    \A t \in 1..Len(tasks) :
        tasks[t].scheduled_cron = None
            => /\ ~HasJob(jobs, t)
               /\ \A k \in 1..Len(procs) :
                     ~(procs[k].kind = "fire" /\ procs[k].task_id = t)

\* somebody else than the configured teacher, or no teacher configured
NotTeacher(u) == TeacherId = None \/ TeacherId[1] # u

Refused(l) == l.result \in {"only_teacher", "not_configured"}

GatedOps == {"send_task", "schedule", "resend", "stats", "list_students"}

\* the step wrote no table, changed no trigger and started no broadcast
NoEffect ==
    /\ students' = students
    /\ tasks' = tasks
    /\ submissions' = submissions
    /\ jobs' = jobs
    /\ procs' = procs

\* C16 as stated: a privileged operation (a file upload included) from a
\* sender who is not the teacher is refused, creates and changes no task,
\* installs and removes no trigger and sends nothing.
C16_RefusedWithoutEffect ==
    [][ ((last'.op \in GatedOps \/ last'.op = "file") /\ NotTeacher(last'.from))
            => /\ Refused(last')
               /\ tasks' = tasks
               /\ jobs' = jobs
               /\ procs' = procs ]_vars

\* C16 amended: /send_task, /schedule_task, /resend_unsubmitted, /stats and
\* /list_students from a sender who is not the teacher are refused and change
\* nothing; a file from such a sender is not refused, it is handled as a
\* submission, and it creates and changes no task, installs and removes no
\* trigger and starts no broadcast.
C16_CommandsRefusedFilesNoTask ==
    [][ /\ (last'.op \in GatedOps /\ NotTeacher(last'.from))
              => Refused(last') /\ NoEffect
        /\ (last'.op = "file" /\ NotTeacher(last'.from))
              => /\ last'.result \in {"saved", "ambiguous"}
                 /\ tasks' = tasks
                 /\ jobs' = jobs
                 /\ procs' = procs ]_vars

\* C16 happens: /schedule_task from a user who is not the teacher, at a bot
\* that holds a task with a trigger, was refused.
C16_Witness ==
    /\ last.op = "schedule"
    /\ last.result = "only_teacher"
    /\ tasks # <<>>
    /\ jobs # {}

\* C17: a firing for a task id without a task sends nothing, reports the
\* missing task and returns, and leaves the job table as it was.
C17_MissingTaskFiring ==
    [][ (last'.op = "fire" /\ ~TaskExists(tasks, last'.task_id))
            => /\ last'.result = "missing"
               /\ procs' = procs
               /\ jobs' = jobs
               /\ HasJob(jobs', last'.task_id) ]_vars

\* C17 happens: the trigger of task 1 came due with no task stored.
C17_Witness ==
    /\ last.op = "fire"
    /\ last.result = "missing"
    /\ tasks = <<>>
    /\ HasJob(jobs, last.task_id)

C19_BroadcastSnapshot ==
    [][ /\ (last'.op = "send_task" /\ Started /\ procs'[Len(procs')].kind = "all")
              => procs'[Len(procs')].snapshot = RosterNow
        /\ \A k \in 1..Len(procs) : procs'[k].snapshot = procs[k].snapshot
        /\ \A k \in 1..Len(procs') :
              procs'[k].kind = "all"
                  => /\ SentTo(procs'[k]) \subseteq IdsOf(procs'[k].snapshot)
                     /\ IdsOf(procs'[k].failed) \subseteq IdsOf(procs'[k].snapshot)
                     /\ ~Running(procs'[k])
                           => Delivered(procs'[k]) + Failed(procs'[k])
                                 = Len(procs'[k].snapshot) ]_vars

\* C19 happens: /send_task all has ended; user 2 registered after the first
\* send of it and got nothing from it.
C19_Witness ==
    \E k \in 1..Len(procs) :
        /\ procs[k].kind = "all"
        /\ ~Running(procs[k])
        /\ procs[k].snapshot # <<>>
        /\ 2 \in IdsOf(RosterNow)
        /\ 2 \notin IdsOf(procs[k].snapshot)
        /\ 2 \notin SentTo(procs[k])

\* C20: after a /schedule_task that got past the parsing of its words, a task
\* has a trigger exactly when its scheduled_cron is set, and the trigger is
\* built from the expression stored.
C20_TriggerAgreesWithStore ==
    Scheduling(last)
        => \A t \in 1..Len(tasks) :
              /\ HasJob(jobs, t) <=> tasks[t].scheduled_cron # None
              /\ \A j \in JobsOf(t) : tasks[t].scheduled_cron = Some(j.trigger)

----------------------------------------------------------------------------
\* C21: the configured teacher id is never a chat_id of the roster, whatever
\* /start and /set_teacher updates came before.
C21_TeacherNotRegistered ==
    TeacherId # None => ~HasStudent(students, TeacherId[1])

----------------------------------------------------------------------------
\* the step handles a file without caption, from a sender who is not the
\* teacher, sent as a reply to the announcement rendered in the step before
RepliesToAnnouncement ==
    /\ last.op = "announce"
    /\ StudentFile(last')
    /\ Strip(last'.caption) = <<>>
    /\ last'.reply = Some(last.text)

\* the step stored the file as a submission from its sender for the task the
\* announcement was rendered for
StoredAgainstAnnounced ==
    /\ last'.result = "saved"
    /\ last'.task_id = Some(last.task_id)
    /\ submissions' = Append(submissions,
            [task_id |-> last.task_id, student_chat_id |-> last'.from])

\* C22: a captionless file sent as a reply to the announcement of task t, of
\* any kind of broadcast and with any title and description, is stored
\* against t.
C22_AnnouncementRoundTrip ==
    [][RepliesToAnnouncement => StoredAgainstAnnounced]_vars

\* C22 happens: a reply to the reminder of task 1 whose title is "7" and whose
\* description is "task: 0" is stored against 1.
C22_Witness ==
    /\ StudentFile(last)
    /\ last.caption = <<>>
    /\ last.reply = Some(Announcement("resend", 1, <<"7">>, <<"t", ":", " ", "0">>))
    /\ SavedAgainst(1)

====
